---------------------------- MODULE Spec2Model ----------------------------
(***************************************************************************)
(* A model of panoramisk/actions.py: the Action (a field mapping that is   *)
(* also an asyncio.Future), its multi / completed classification, the      *)
(* add_message feed, the __anext__ stream, and the construction of         *)
(* Actions and Commands with ids drawn from the shared id generators.      *)
(***************************************************************************)
EXTENDS Integers, Sequences, FiniteSets, TLC

(***************************************************************************)
(* Bounds of the model.                                                    *)
(***************************************************************************)
MaxLen == 3         \* add_message calls on one Action
MaxEos == 2         \* StopAsyncIteration signals counted per consumer
MaxCreated == 3     \* constructions followed in SpecIds
MaxResets == 2      \* IdGenerator.reset calls followed in SpecIds

(***************************************************************************)
(* Python strings are sequences of characters, so that lower(),            *)
(* startswith(), endswith() and `in` are computed and not assumed.         *)
(***************************************************************************)
Upper == <<"A","B","C","D","E","F","G","H","I","J","K","L","M","N","O","P","Q","R","S","T","U","V","W","X","Y","Z">>
LowerCase == <<"a","b","c","d","e","f","g","h","i","j","k","l","m","n","o","p","q","r","s","t","u","v","w","x","y","z">>

LowerChar(c) ==
    IF \E i \in 1..Len(Upper) : Upper[i] = c
    THEN LowerCase[CHOOSE i \in 1..Len(Upper) : Upper[i] = c]
    ELSE c

\* str.lower()
Lower(s) == [i \in 1..Len(s) |-> LowerChar(s[i])]

\* str.startswith(p)
StartsWith(s, p) == Len(p) <= Len(s) /\ SubSeq(s, 1, Len(p)) = p

\* str.endswith(p)
EndsWith(s, p) == Len(p) <= Len(s) /\ SubSeq(s, Len(s) - Len(p) + 1, Len(s)) = p

\* sub in s
Contains(s, sub) ==
    \E i \in 1..(Len(s) + 1) :
        i + Len(sub) - 1 <= Len(s) /\ SubSeq(s, i, i + Len(sub) - 1) = sub

\* The literals the classification compares against.
Str_Complete == <<"C","o","m","p","l","e","t","e">>
Str_will_follow == <<"w","i","l","l"," ","f","o","l","l","o","w">>
Str_added == <<"a","d","d","e","d">>
Str_to_queue == <<"t","o"," ","q","u","e","u","e">>
Str_successfully_queued == <<"s","u","c","c","e","s","s","f","u","l","l","y"," ","q","u","e","u","e","d">>
CompletedSubevents == {"End", "Exec"}
CompletedResponses == {"Success", "Error", "Fail", "Failure"}

(***************************************************************************)
(* Messages: the attributes the Action reads from a received message.      *)
(* A missing attribute reads as the empty string, a missing key as NoField.*)
(***************************************************************************)
NoField == "<absent>"
Empty == << >>

Msg(event, subevent, response, message, eventlist) ==
    [event |-> event, subevent |-> subevent, response |-> response,
     message |-> message, EventList |-> eventlist]

Txt_Plain == <<"P","o","n","g">>
Txt_WillFollow == <<"P","e","e","r","s"," ","w","i","l","l"," ","f","o","l","l","o","w">>
Txt_Added == <<"A","d","d","e","d"," ","t","o"," ","q","u","e","u","e">>
Txt_Queued == <<"C","a","l","l"," ","s","u","c","c","e","s","s","f","u","l","l","y"," ","q","u","e","u","e","d">>
Ev_Entry == <<"P","e","e","r","E","n","t","r","y">>
Ev_ListComplete == <<"P","e","e","r","l","i","s","t","C","o","m","p","l","e","t","e">>
Ev_AGIExec == <<"A","G","I","E","x","e","c">>

M_Success == Msg(Empty, "", "Success", Txt_Plain, NoField)
M_WillFollow == Msg(Empty, "", "Success", Txt_WillFollow, NoField)
M_ListStart == Msg(Empty, "", "Success", Empty, "start")
M_Added == Msg(Empty, "", "Success", Txt_Added, NoField)
M_Queued == Msg(Empty, "", "Success", Txt_Queued, NoField)
M_Follows == Msg(Empty, "", "Follows", Empty, NoField)
M_Entry == Msg(Ev_Entry, "", "", Empty, NoField)
M_ListComplete == Msg(Ev_ListComplete, "", "", Empty, "Complete")
M_SubStart == Msg(Ev_AGIExec, "Start", "", Empty, NoField)
M_SubEnd == Msg(Ev_AGIExec, "End", "", Empty, NoField)

Messages ==
    {M_Success, M_WillFollow, M_ListStart, M_Added, M_Queued, M_Follows,
     M_Entry, M_ListComplete, M_SubStart, M_SubEnd}

(***************************************************************************)
(* The state.                                                              *)
(***************************************************************************)
VARIABLES
    generators,       \* IdGenerator instances by prefix: uid, epoch, seq
    resets,           \* IdGenerator.reset calls so far
    created,          \* the ids of the Actions and Commands constructed
    as_list,          \* Action.as_list
    fields,           \* the Action's own mapping: actionid, commandid, async
    responses,        \* Action.responses
    responses_index,  \* Action.responses_index
    fut_state,        \* the Future's state: "PENDING" or "FINISHED"
    fut_result,       \* the Future's result: nothing, a message, or the list
    invalid_state,    \* set_result was called on a done Future
    set_result_calls, \* calls of set_result so far
    resolved_value,   \* what the result held when set_result stored it
    ret,              \* what the last add_message returned
    pc,               \* each consumer: "off", "idle" or "sleeping"
    yielded,          \* the messages __anext__ has returned, per consumer
    eos_count         \* the StopAsyncIteration signals, per consumer

id_vars == <<generators, resets, created>>
action_vars == <<as_list, fields, responses, responses_index>>
future_vars == <<fut_state, fut_result, invalid_state, set_result_calls, resolved_value, ret>>
stream_vars == <<pc, yielded, eos_count>>
vars == <<id_vars, action_vars, future_vars, stream_vars>>


(***************************************************************************)
(* utils.IdGenerator: ids of the form prefix/uid/epoch/sequence.  A call   *)
(* issues the next sequence value; reset gives every generator a uid and   *)
(* starts the counters again, so that the next id issued is .../1/1.       *)
(***************************************************************************)
RandomUids == {"uuid4-a", "uuid4-b"}
Uids == RandomUids \cup {"myuuid"}
Prefixes == {"action", "command"}

NewGenerator(uid) == [uid |-> uid, epoch |-> 1, seq |-> 0]

\* generator(): the id issued and the generator afterwards
IdGeneratorCall(prefix, g) ==
    [id |-> <<prefix, g.uid, g.epoch, g.seq + 1>>,
     gen |-> [g EXCEPT !.seq = @ + 1]]

\* IdGenerator.reset(uid): every instance restarts
IdGeneratorReset(gens, uid) == [p \in DOMAIN gens |-> NewGenerator(uid)]

(***************************************************************************)
(* Construction.  data is the mapping the caller passes: the keys the      *)
(* classes look at are action, actionid, command, commandid and async.     *)
(***************************************************************************)
AsListValues == {"None", "True", "False"}
AsyncValues == {NoField, "true", "false"}
NoId == << >>                   \* the id key is not in the mapping
SuppliedIds == {NoId, <<"caller-id">>}

Data(action, actionid, commandid, async) ==
    [action |-> action, actionid |-> actionid, commandid |-> commandid,
     async |-> async]

\* A mutation of ActionInit: every Action builds a generator of its own.
ActionInitOwnGenerator(data, kw_as_list, gens) ==
    LET own == IdGeneratorCall("action", NewGenerator(gens["action"].uid))
        need == data.actionid = NoId
    IN  [as_list |-> kw_as_list,
         fields |-> IF need THEN [data EXCEPT !.actionid = own.id] ELSE data,
         generators |-> gens,
         responses |-> << >>,
         responses_index |-> 0]

\* A mutation of ActionInit: the id is issued whether or not one was given.
ActionInitAlwaysIssue(data, kw_as_list, gens) ==
    LET issued == IdGeneratorCall("action", gens["action"])
    IN  [as_list |-> kw_as_list,
         fields |-> [data EXCEPT !.actionid = issued.id],
         generators |-> [gens EXCEPT !["action"] = issued.gen],
         responses |-> << >>,
         responses_index |-> 0]

\* Action.__init__
ActionInit(data, kw_as_list, gens) ==
    LET issued == IdGeneratorCall("action", gens["action"])
        need == data.actionid = NoId
    IN  [as_list |-> kw_as_list,
         fields |-> IF need THEN [data EXCEPT !.actionid = issued.id] ELSE data,
         generators |-> IF need THEN [gens EXCEPT !["action"] = issued.gen] ELSE gens,
         responses |-> << >>,
         responses_index |-> 0]

\* A mutation of CommandInit: the CommandID is drawn from action_id_generator.
CommandInitActionGenerator(data, kw_as_list, gens) ==
    LET base == ActionInit(data, kw_as_list, gens)
        f1 == IF base.fields.action = NoField
              THEN [base.fields EXCEPT !.action = "Command"]
              ELSE base.fields
        issued == IdGeneratorCall("action", base.generators["action"])
        need == f1.commandid = NoId
    IN  [base EXCEPT
            !.fields = IF need THEN [f1 EXCEPT !.commandid = issued.id] ELSE f1,
            !.generators = IF need THEN [@ EXCEPT !["action"] = issued.gen] ELSE @]

\* Command.__init__
CommandInit(data, kw_as_list, gens) ==
    LET base == ActionInit(data, kw_as_list, gens)
        f1 == IF base.fields.action = NoField
              THEN [base.fields EXCEPT !.action = "Command"]
              ELSE base.fields
        issued == IdGeneratorCall("command", base.generators["command"])
        need == f1.commandid = NoId
    IN  [base EXCEPT
            !.fields = IF need THEN [f1 EXCEPT !.commandid = issued.id] ELSE f1,
            !.generators = IF need THEN [@ EXCEPT !["command"] = issued.gen] ELSE @]

\* What `created` remembers of a construction.
Created(cls, data, obj) ==
    [cls |-> cls,
     actionid |-> obj.fields.actionid,
     commandid |-> obj.fields.commandid,
     given |-> data.actionid,
     auto_action |-> data.actionid = NoId,
     auto_command |-> cls = "Command" /\ data.commandid = NoId,
     resets |-> resets]

(***************************************************************************)
(* The Future half of the Action.                                          *)
(***************************************************************************)
NoMsg == [none |-> TRUE]
NoResult == [ref |-> "none", msg |-> NoMsg]

\* Future.done()
done == fut_state # "PENDING"

\* What result() hands to an awaiter: the stored message, or the list object
\* the Future holds a reference to, with the items that list has now.
Result(res, resps) ==
    CASE res.ref = "message" -> [kind |-> "message", items |-> <<res.msg>>]
      [] res.ref = "responses" -> [kind |-> "list", items |-> resps]
      [] OTHER -> [kind |-> "none", items |-> << >>]

(***************************************************************************)
(* The classification.  rs is self.responses at the time of the call.      *)
(***************************************************************************)
Bool(v) == v = "True"

\* A mutation of multi: the last message is classified instead of the first.
multiOfLast(rs) ==
    LET resp == rs[Len(rs)]
        msg == Lower(resp.message)
    IN  IF as_list # "None" THEN Bool(as_list)
        ELSE IF resp.subevent = "Start" THEN TRUE
        ELSE IF resp.EventList # NoField /\ resp.EventList = "start" THEN TRUE
        ELSE IF Contains(msg, Str_will_follow) THEN TRUE
        ELSE IF StartsWith(msg, Str_added) /\ EndsWith(msg, Str_to_queue) THEN TRUE
        ELSE IF EndsWith(msg, Str_successfully_queued) /\ fields.async # "false" THEN TRUE
        ELSE FALSE

\* A mutation of multi: the override is looked at after the signals.
multiSignalsFirst(rs) ==
    LET resp == rs[1]
        msg == Lower(resp.message)
    IN  IF resp.subevent = "Start" THEN TRUE
        ELSE IF resp.EventList # NoField /\ resp.EventList = "start" THEN TRUE
        ELSE IF Contains(msg, Str_will_follow) THEN TRUE
        ELSE IF StartsWith(msg, Str_added) /\ EndsWith(msg, Str_to_queue) THEN TRUE
        ELSE IF EndsWith(msg, Str_successfully_queued) /\ fields.async # "false" THEN TRUE
        ELSE IF as_list # "None" THEN Bool(as_list)
        ELSE FALSE

\* Action.multi
multi(rs) ==
    LET resp == rs[1]
        msg == Lower(resp.message)
    IN  IF as_list # "None" THEN Bool(as_list)
        ELSE IF resp.subevent = "Start" THEN TRUE
        ELSE IF resp.EventList # NoField /\ resp.EventList = "start" THEN TRUE
        ELSE IF Contains(msg, Str_will_follow) THEN TRUE
        ELSE IF StartsWith(msg, Str_added) /\ EndsWith(msg, Str_to_queue) THEN TRUE
        ELSE IF EndsWith(msg, Str_successfully_queued) /\ fields.async # "false" THEN TRUE
        ELSE FALSE

\* A mutation of completed: the first message is looked at instead of the last.
completedOfFirst(rs) ==
    LET resp == rs[1]
    IN  IF EndsWith(resp.event, Str_Complete) THEN TRUE
        ELSE IF resp.subevent \in CompletedSubevents THEN TRUE
        ELSE IF resp.response \in CompletedResponses THEN TRUE
        ELSE IF ~multi(rs) THEN TRUE
        ELSE FALSE

\* A mutation of completed: a single Action is not complete on any message.
completedSignalsOnly(rs) ==
    LET resp == rs[Len(rs)]
    IN  IF EndsWith(resp.event, Str_Complete) THEN TRUE
        ELSE IF resp.subevent \in CompletedSubevents THEN TRUE
        ELSE IF resp.response \in CompletedResponses THEN TRUE
        ELSE FALSE

\* A mutation of completed: any response status that is set completes.
completedAnyResponse(rs) ==
    LET resp == rs[Len(rs)]
    IN  IF EndsWith(resp.event, Str_Complete) THEN TRUE
        ELSE IF resp.subevent \in CompletedSubevents THEN TRUE
        ELSE IF resp.response # "" THEN TRUE
        ELSE IF ~multi(rs) THEN TRUE
        ELSE FALSE

\* Action.completed
completed(rs) ==
    LET resp == rs[Len(rs)]
    IN  IF EndsWith(resp.event, Str_Complete) THEN TRUE
        ELSE IF resp.subevent \in CompletedSubevents THEN TRUE
        ELSE IF resp.response \in CompletedResponses THEN TRUE
        ELSE IF ~multi(rs) THEN TRUE
        ELSE FALSE

(***************************************************************************)
(* Future.set_result(value), as a change of the Future's variables: on a   *)
(* done Future it raises InvalidStateError and stores nothing.             *)
(***************************************************************************)
set_result(ref, msg, rs) ==
    IF done
    THEN [fut_state |-> fut_state, fut_result |-> fut_result,
          invalid_state |-> TRUE, set_result_calls |-> set_result_calls + 1,
          resolved_value |-> resolved_value, raised |-> TRUE]
    ELSE [fut_state |-> "FINISHED",
          fut_result |-> [ref |-> ref, msg |-> msg],
          invalid_state |-> invalid_state,
          set_result_calls |-> set_result_calls + 1,
          resolved_value |-> Result([ref |-> ref, msg |-> msg], rs),
          raised |-> FALSE]

\* The Future left alone.
no_set_result ==
    [fut_state |-> fut_state, fut_result |-> fut_result,
     invalid_state |-> invalid_state, set_result_calls |-> set_result_calls,
     resolved_value |-> resolved_value, raised |-> FALSE]

\* A mutation of add_message: done() is not asked.
add_messageNoDoneCheck(message) ==
    LET rs == Append(responses, message)
        m == multi(rs)
    IN  IF completed(rs)
        THEN IF m /\ Len(rs) > 1
             THEN [responses |-> rs, fut |-> set_result("responses", NoMsg, rs), ret |-> "True"]
             ELSE IF ~m
             THEN [responses |-> rs, fut |-> set_result("message", rs[1], rs), ret |-> "True"]
             ELSE [responses |-> rs, fut |-> no_set_result, ret |-> "False"]
        ELSE [responses |-> rs, fut |-> no_set_result, ret |-> "None"]

\* A mutation of add_message: a multi Action resolves with one message buffered.
add_messageNoLenCheck(message) ==
    LET rs == Append(responses, message)
        m == multi(rs)
    IN  IF completed(rs) /\ ~done
        THEN IF m
             THEN [responses |-> rs, fut |-> set_result("responses", NoMsg, rs), ret |-> "True"]
             ELSE [responses |-> rs, fut |-> set_result("message", rs[1], rs), ret |-> "True"]
        ELSE [responses |-> rs, fut |-> no_set_result, ret |-> "None"]

\* A mutation of add_message: a done Action buffers nothing more.
add_messageDropWhenDone(message) ==
    LET rs == Append(responses, message)
        m == multi(rs)
    IN  IF done
        THEN [responses |-> responses, fut |-> no_set_result, ret |-> "None"]
        ELSE IF completed(rs)
        THEN IF m /\ Len(rs) > 1
             THEN [responses |-> rs, fut |-> set_result("responses", NoMsg, rs), ret |-> "True"]
             ELSE IF ~m
             THEN [responses |-> rs, fut |-> set_result("message", rs[1], rs), ret |-> "True"]
             ELSE [responses |-> rs, fut |-> no_set_result, ret |-> "False"]
        ELSE [responses |-> rs, fut |-> no_set_result, ret |-> "None"]

\* A mutation of add_message: `return True` is the last statement of the method.
add_messageReturnTrue(message) ==
    LET rs == Append(responses, message)
        m == multi(rs)
    IN  IF completed(rs) /\ ~done
        THEN IF m /\ Len(rs) > 1
             THEN [responses |-> rs, fut |-> set_result("responses", NoMsg, rs), ret |-> "True"]
             ELSE IF ~m
             THEN [responses |-> rs, fut |-> set_result("message", rs[1], rs), ret |-> "True"]
             ELSE [responses |-> rs, fut |-> no_set_result, ret |-> "False"]
        ELSE [responses |-> rs, fut |-> no_set_result, ret |-> "True"]

\* Action.add_message: the buffer, the Future and the value returned.  The
\* list handed to set_result is self.responses itself, not a copy of it.
add_message(message) ==
    LET rs == Append(responses, message)
        m == multi(rs)
    IN  IF completed(rs) /\ ~done
        THEN IF m /\ Len(rs) > 1
             THEN [responses |-> rs, fut |-> set_result("responses", NoMsg, rs), ret |-> "True"]
             ELSE IF ~m
             THEN [responses |-> rs, fut |-> set_result("message", rs[1], rs), ret |-> "True"]
             ELSE [responses |-> rs, fut |-> no_set_result, ret |-> "False"]
        ELSE [responses |-> rs, fut |-> no_set_result, ret |-> "None"]

\* The delivery mechanism feeds one message out of msgs.
Feed(msgs) ==
    /\ Len(responses) < MaxLen
    /\ \E message \in msgs :
        LET r == add_message(message)
        IN  /\ responses' = r.responses
            /\ fut_state' = r.fut.fut_state
            /\ fut_result' = r.fut.fut_result
            /\ invalid_state' = r.fut.invalid_state
            /\ set_result_calls' = r.fut.set_result_calls
            /\ resolved_value' = r.fut.resolved_value
            /\ ret' = IF r.fut.raised THEN "raised" ELSE r.ret
    /\ UNCHANGED <<id_vars, as_list, fields, responses_index, stream_vars>>

AddMessage == Feed(Messages)

(***************************************************************************)
(* The stream.  One pass of the loop of __anext__ runs without an await,   *)
(* so it is one step; asyncio.sleep suspends the consumer until it is      *)
(* scheduled again.                                                        *)
(***************************************************************************)
Consumers == {"c1", "c2"}

\* A mutation of anext: done() is asked before the buffer is looked at.
anextDoneFirst ==
    IF done
    THEN [out |-> "stop", res |-> NoMsg, responses_index |-> responses_index]
    ELSE IF responses_index < Len(responses)
    THEN [out |-> "item", res |-> responses[responses_index + 1],
          responses_index |-> responses_index + 1]
    ELSE [out |-> "sleep", res |-> NoMsg, responses_index |-> responses_index]

\* A mutation of anext: the cursor is left where it was.
anextNoAdvance ==
    IF responses_index < Len(responses)
    THEN [out |-> "item", res |-> responses[responses_index + 1],
          responses_index |-> responses_index]
    ELSE IF done
    THEN [out |-> "stop", res |-> NoMsg, responses_index |-> responses_index]
    ELSE [out |-> "sleep", res |-> NoMsg, responses_index |-> responses_index]

\* A mutation of anext: the cursor goes back to the start at end-of-stream.
anextRewind ==
    IF responses_index < Len(responses)
    THEN [out |-> "item", res |-> responses[responses_index + 1],
          responses_index |-> responses_index + 1]
    ELSE IF done
    THEN [out |-> "stop", res |-> NoMsg, responses_index |-> 0]
    ELSE [out |-> "sleep", res |-> NoMsg, responses_index |-> responses_index]

\* A mutation of anext: done() is never asked, the consumer sleeps instead.
anextNeverStops ==
    IF responses_index < Len(responses)
    THEN [out |-> "item", res |-> responses[responses_index + 1],
          responses_index |-> responses_index + 1]
    ELSE [out |-> "sleep", res |-> NoMsg, responses_index |-> responses_index]

\* A mutation of anext: end-of-stream is raised once, later reads sleep.
anextStopOnce ==
    IF responses_index < Len(responses)
    THEN [out |-> "item", res |-> responses[responses_index + 1],
          responses_index |-> responses_index + 1]
    ELSE IF done /\ \A c \in Consumers : eos_count[c] = 0
    THEN [out |-> "stop", res |-> NoMsg, responses_index |-> responses_index]
    ELSE [out |-> "sleep", res |-> NoMsg, responses_index |-> responses_index]

\* One pass of the loop of Action.__anext__ (Python indexes from 0).
anext ==
    IF responses_index < Len(responses)
    THEN [out |-> "item", res |-> responses[responses_index + 1],
          responses_index |-> responses_index + 1]
    ELSE IF done
    THEN [out |-> "stop", res |-> NoMsg, responses_index |-> responses_index]
    ELSE [out |-> "sleep", res |-> NoMsg, responses_index |-> responses_index]

\* The effect of one pass on consumer c.
AnextPass(c) ==
    LET r == anext
    IN  /\ r.out = "stop" => eos_count[c] < MaxEos
        /\ r.out = "item" => Len(yielded[c]) < MaxLen
        /\ responses_index' = r.responses_index
        /\ pc' = [pc EXCEPT ![c] = IF r.out = "sleep" THEN "sleeping" ELSE "idle"]
        /\ yielded' = IF r.out = "item"
                      THEN [yielded EXCEPT ![c] = Append(@, r.res)]
                      ELSE yielded
        /\ eos_count' = IF r.out = "stop"
                        THEN [eos_count EXCEPT ![c] = @ + 1]
                        ELSE eos_count
        /\ UNCHANGED <<id_vars, as_list, fields, responses, future_vars>>

\* A consumer calls __anext__.
AnextCall(c) == pc[c] = "idle" /\ AnextPass(c)

\* A consumer that slept is scheduled again and goes round the loop.
AnextWake(c) == pc[c] = "sleeping" /\ AnextPass(c)

(***************************************************************************)
(* Spec: one Action, from its construction on, fed by the delivery         *)
(* mechanism and read by one consumer.                                     *)
(***************************************************************************)
FutureInit ==
    /\ fut_state = "PENDING"
    /\ fut_result = NoResult
    /\ invalid_state = FALSE
    /\ set_result_calls = 0
    /\ resolved_value = Result(NoResult, << >>)
    /\ ret = "-"

Init ==
    /\ resets = 1
    /\ \E kw \in AsListValues, async \in AsyncValues :
        LET data == Data("Status", NoId, NoId, async)
            gens == IdGeneratorReset([p \in Prefixes |-> NewGenerator("uuid4-a")], "myuuid")
            obj == ActionInit(data, kw, gens)
        IN  /\ as_list = obj.as_list
            /\ fields = obj.fields
            /\ generators = obj.generators
            /\ responses = obj.responses
            /\ responses_index = obj.responses_index
            /\ created = <<Created("Action", data, obj)>>
    /\ FutureInit
    /\ pc = [c \in Consumers |-> IF c = "c1" THEN "idle" ELSE "off"]
    /\ yielded = [c \in Consumers |-> << >>]
    /\ eos_count = [c \in Consumers |-> 0]

Next ==
    \/ AddMessage
    \/ \E c \in Consumers : AnextCall(c)
    \/ \E c \in Consumers : AnextWake(c)

Spec == Init /\ [][Next]_vars


(***************************************************************************)
(* SpecSupplied: as Spec, for an Action constructed with or without an     *)
(* ActionID of the caller (which may be the empty string), fed from a      *)
(* smaller set of messages.                                                *)
(***************************************************************************)
EmptyId == <<"">>
AnyActionIds == SuppliedIds \cup {EmptyId}
LiveMessages == {M_Success, M_Entry, M_SubStart, M_ListComplete}

AddMessageLive == Feed(LiveMessages)

NextLive ==
    \/ AddMessageLive
    \/ \E c \in Consumers : AnextCall(c)
    \/ \E c \in Consumers : AnextWake(c)

InitSupplied ==
    /\ resets = 1
    /\ \E actionid \in AnyActionIds, kw \in AsListValues :
        LET data == Data("Status", actionid, NoId, NoField)
            gens == IdGeneratorReset([p \in Prefixes |-> NewGenerator("uuid4-a")], "myuuid")
            obj == ActionInit(data, kw, gens)
        IN  /\ as_list = obj.as_list
            /\ fields = obj.fields
            /\ generators = obj.generators
            /\ responses = obj.responses
            /\ responses_index = obj.responses_index
            /\ created = <<Created("Action", data, obj)>>
    /\ FutureInit
    /\ pc = [c \in Consumers |-> IF c = "c1" THEN "idle" ELSE "off"]
    /\ yielded = [c \in Consumers |-> << >>]
    /\ eos_count = [c \in Consumers |-> 0]

SpecSupplied == InitSupplied /\ [][NextLive]_vars

(***************************************************************************)
(* SpecLive: as Spec, fed from the smaller set of messages, with the       *)
(* scheduling of the consumer: the event loop resumes a task whose sleep   *)
(* is over, and the consumer keeps calling __anext__.                      *)
(***************************************************************************)
SpecLive ==
    /\ Init
    /\ [][NextLive]_vars
    /\ WF_vars(AnextCall("c1"))
    /\ WF_vars(AnextWake("c1"))

(***************************************************************************)
(* SpecTwo: two tasks iterate over the same Action.  __aiter__ returns the *)
(* Action itself, so both run __anext__ on the one cursor; a task gives    *)
(* way to the other only at its await.                                     *)
(***************************************************************************)
InitTwo ==
    /\ resets = 1
    /\ \E kw \in AsListValues :
        LET data == Data("Status", NoId, NoId, NoField)
            gens == IdGeneratorReset([p \in Prefixes |-> NewGenerator("uuid4-a")], "myuuid")
            obj == ActionInit(data, kw, gens)
        IN  /\ as_list = obj.as_list
            /\ fields = obj.fields
            /\ generators = obj.generators
            /\ responses = obj.responses
            /\ responses_index = obj.responses_index
            /\ created = <<Created("Action", data, obj)>>
    /\ FutureInit
    /\ pc = [c \in Consumers |-> "idle"]
    /\ yielded = [c \in Consumers |-> << >>]
    /\ eos_count = [c \in Consumers |-> 0]

SpecTwo == InitTwo /\ [][NextLive]_vars

(***************************************************************************)
(* SpecIds: the process from import on.  Actions and Commands are          *)
(* constructed, with and without ids of the caller, and the generators     *)
(* are reset.  The Action variables hold the object constructed last.      *)
(***************************************************************************)
NoData == Data(NoField, NoId, NoId, NoField)

InitIds ==
    /\ generators \in [Prefixes -> {NewGenerator(u) : u \in RandomUids}]
    /\ resets = 0
    /\ created = << >>
    /\ as_list = "None"
    /\ fields = NoData
    /\ responses = << >>
    /\ responses_index = 0
    /\ FutureInit
    /\ pc = [c \in Consumers |-> "off"]
    /\ yielded = [c \in Consumers |-> << >>]
    /\ eos_count = [c \in Consumers |-> 0]

Construct(cls, data, obj) ==
    /\ as_list' = obj.as_list
    /\ fields' = obj.fields
    /\ generators' = obj.generators
    /\ responses' = obj.responses
    /\ responses_index' = obj.responses_index
    /\ created' = Append(created, Created(cls, data, obj))
    /\ UNCHANGED <<resets, future_vars, stream_vars>>

\* Action({...}) at some call site
NewAction ==
    /\ Len(created) < MaxCreated
    /\ \E actionid \in SuppliedIds :
        LET data == Data("Status", actionid, NoId, NoField)
        IN  Construct("Action", data, ActionInit(data, "None", generators))

\* Command({...}) at some call site
NewCommand ==
    /\ Len(created) < MaxCreated
    /\ \E actionid \in SuppliedIds, commandid \in SuppliedIds, action \in {NoField, "Command"} :
        LET data == Data(action, actionid, commandid, NoField)
        IN  Construct("Command", data, CommandInit(data, "None", generators))

\* utils.IdGenerator.reset(uid), with a uid or with a random one
Reset ==
    /\ resets < MaxResets
    /\ \E uid \in Uids :
        /\ generators' = IdGeneratorReset(generators, uid)
        /\ resets' = resets + 1
    /\ UNCHANGED <<created, action_vars, future_vars, stream_vars>>

NextIds == NewAction \/ NewCommand \/ Reset

SpecIds == InitIds /\ [][NextIds]_vars

(***************************************************************************)
(* What the claims call a completion signal and a multi signal.            *)
(***************************************************************************)
CompletionSignal(m) ==
    \/ EndsWith(m.event, Str_Complete)
    \/ m.subevent \in {"End", "Exec"}
    \/ m.response \in {"Success", "Error", "Fail", "Failure"}

MultiSignal(m) ==
    \/ m.subevent = "Start"
    \/ m.EventList = "start"
    \/ Contains(Lower(m.message), Str_will_follow)
    \/ StartsWith(Lower(m.message), Str_added) /\ EndsWith(Lower(m.message), Str_to_queue)
    \/ EndsWith(Lower(m.message), Str_successfully_queued) /\ fields.async # "false"

\* The Action is classified multi by its first message and the override.
ClassifiedMulti ==
    \/ as_list = "True"
    \/ as_list = "None" /\ MultiSignal(responses[1])

\* The value an awaiter sees now.
Awaited == Result(fut_result, responses)

Fed == Len(responses)

(***************************************************************************)
(* C1: over every sequence of add_message calls set_result is called at    *)
(* most once, and never on an Action that is done: no InvalidStateError.   *)
(***************************************************************************)
C1_ResolvedAtMostOnce ==
    /\ set_result_calls <= 1
    /\ ~invalid_state
    /\ (done <=> set_result_calls = 1)

\* A resolved Action was fed a further message that satisfies completed.
C1_Witness ==
    /\ done
    /\ Fed = 3
    /\ CompletionSignal(responses[2])
    /\ CompletionSignal(responses[3])
    /\ set_result_calls = 1

(***************************************************************************)
(* C2: once the Action is resolved, the value an awaiter sees is the one   *)
(* captured at the moment of resolution, whatever is fed later.            *)
(***************************************************************************)
C2_ResultUnchanged == done => Awaited = resolved_value

(***************************************************************************)
(* C3: an Action classified multi is pending after its first message, and  *)
(* a later add_message resolves it exactly when its message carries a      *)
(* completion signal, with the list of all messages buffered so far.       *)
(***************************************************************************)
C3_Step ==
    (Fed >= 1 /\ Len(responses') = Fed + 1 /\ ClassifiedMulti /\ ~done) =>
        LET message == responses'[Fed + 1]
        IN  /\ CompletionSignal(message) <=> fut_state' = "FINISHED"
            /\ fut_state' = "FINISHED" =>
                /\ Result(fut_result', responses') = [kind |-> "list", items |-> responses']
                /\ responses' = Append(responses, message)
                /\ ret' = "True"

C3_MultiResolvesOnCompletion ==
    /\ []((Fed = 1 /\ ClassifiedMulti) => ~done)
    /\ [][C3_Step]_vars

\* Start, then a message without a completion signal, then a completing one.
C3_Witness ==
    /\ as_list = "None"
    /\ Fed = 3
    /\ responses[1].subevent = "Start"
    /\ ~CompletionSignal(responses[2])
    /\ EndsWith(responses[3].event, Str_Complete)
    /\ done
    /\ resolved_value = [kind |-> "list", items |-> responses]

(***************************************************************************)
(* C4: a multi Action with one message buffered stays pending, and         *)
(* add_message reports False when that message satisfies a completion      *)
(* signal.                                                                 *)
(***************************************************************************)
C4_MultiNeedsSecondMessage ==
    (Fed = 1 /\ ClassifiedMulti) =>
        /\ ~done
        /\ CompletionSignal(responses[1]) => ret = "False"

\* Response 'Success' with a 'will follow' message, fed first.
C4_Witness ==
    /\ Fed = 1
    /\ as_list = "None"
    /\ responses[1].response = "Success"
    /\ Contains(Lower(responses[1].message), Str_will_follow)
    /\ ret = "False"
    /\ ~done

(***************************************************************************)
(* C5: without an override, an Action whose first message carries no multi *)
(* signal resolves on its first add_message, whatever the message is, with *)
(* that message alone, and add_message reports True.                       *)
(***************************************************************************)
C5_SingleResolvesOnFirst ==
    (Fed >= 1 /\ as_list = "None" /\ ~MultiSignal(responses[1])) =>
        /\ done
        /\ Awaited = [kind |-> "message", items |-> <<responses[1]>>]
        /\ Fed = 1 => ret = "True"

\* The first message carries no completion signal either, and resolved it.
C5_Witness ==
    /\ Fed = 1
    /\ as_list = "None"
    /\ ~MultiSignal(responses[1])
    /\ ~CompletionSignal(responses[1])
    /\ done
    /\ ret = "True"

(***************************************************************************)
(* C6: with an override, multi is the override for every first message:    *)
(* force-single resolves on the first message, force-list stays pending    *)
(* after it.                                                               *)
(***************************************************************************)
C6_OverrideDecides ==
    Fed >= 1 =>
        /\ as_list = "False" =>
            /\ ~multi(responses)
            /\ done
            /\ Awaited = [kind |-> "message", items |-> <<responses[1]>>]
        /\ as_list = "True" =>
            /\ multi(responses)
            /\ Fed = 1 => ~done

\* Forced single, and the first message carries a multi signal.
C6_Witness ==
    /\ as_list = "False"
    /\ Fed = 1
    /\ MultiSignal(responses[1])
    /\ done

(***************************************************************************)
(* C7: without an override, multi is true exactly when the first buffered  *)
(* message carries a multi signal; later messages do not change it.        *)
(***************************************************************************)
C7_MultiOfFirstMessage ==
    (Fed >= 1 /\ as_list = "None") => (multi(responses) <=> MultiSignal(responses[1]))

\* Only the second message carries a multi signal.
C7_Witness ==
    /\ as_list = "None"
    /\ Fed >= 2
    /\ ~MultiSignal(responses[1])
    /\ MultiSignal(responses[2])
    /\ ~multi(responses)

(***************************************************************************)
(* C8: with one consumer, the stream has yielded exactly the first         *)
(* responses_index buffered messages, in arrival order, and end-of-stream  *)
(* is signalled only when the Action is done and the cursor is at the end  *)
(* of the buffer.                                                          *)
(***************************************************************************)
C8_StreamInOrder ==
    /\ [](yielded["c1"] = SubSeq(responses, 1, responses_index))
    /\ [][eos_count' # eos_count => (done /\ responses_index = Len(responses))]_vars

\* A multi Action was streamed to its end.
C8_Witness ==
    /\ eos_count["c1"] = 1
    /\ Fed = 3
    /\ yielded["c1"] = responses
    /\ resolved_value.kind = "list"

(***************************************************************************)
(* C9: once end-of-stream has been signalled, no stream read yields a      *)
(* message.                                                                *)
(***************************************************************************)
C9_NothingAfterEndOfStream ==
    [][eos_count["c1"] > 0 => yielded' = yielded]_vars

(***************************************************************************)
(* C10: between two resets, the ids issued to Actions and Commands         *)
(* constructed without an ActionID differ only in the sequence component,  *)
(* which is 1 for the first and grows by creation order.                   *)
(***************************************************************************)
IssuedBefore(j) ==
    {i \in 1..(j - 1) : created[i].auto_action /\ created[i].resets = created[j].resets}

C10_ActionIdsIncrease ==
    \A j \in 1..Len(created) :
        created[j].auto_action =>
            /\ IssuedBefore(j) = {} => created[j].actionid[4] = 1
            /\ \A i \in IssuedBefore(j) :
                /\ SubSeq(created[i].actionid, 1, 3) = SubSeq(created[j].actionid, 1, 3)
                /\ created[i].actionid[4] < created[j].actionid[4]

\* After a reset, an Action and then a Command drew from the same generator.
C10_Witness ==
    /\ resets >= 1
    /\ \E j \in 1..Len(created) : \E i \in IssuedBefore(j) :
        /\ created[i].cls = "Action"
        /\ created[j].cls = "Command"
        /\ created[j].resets = resets
        /\ created[j].actionid[4] = 2

(***************************************************************************)
(* C11 as stated: the id of an Action is never empty and never changes,    *)
(* and an ActionID of the caller is kept and no id is issued.              *)
(***************************************************************************)
IdKept ==
    /\ fields.actionid = created[1].actionid
    /\ ~created[1].auto_action =>
        /\ fields.actionid = created[1].given
        /\ generators["action"].seq = 0

C11_IdNeverEmpty ==
    /\ fields.actionid \notin {NoId, EmptyId}
    /\ IdKept

(***************************************************************************)
(* C11 as amended: the id never changes over add_message calls and stream  *)
(* reads; it is not empty unless the caller gave an empty ActionID; an     *)
(* ActionID of the caller is kept and no id is issued.                     *)
(***************************************************************************)
C11_IdKept ==
    /\ fields.actionid # NoId
    /\ fields.actionid = EmptyId => created[1].given = EmptyId
    /\ created[1].auto_action =>
        /\ fields.actionid = <<"action", "myuuid", 1, 1>>
        /\ generators["action"].seq = 1
    /\ IdKept

\* The id of the caller after two feeds and a stream read.
C11_Witness ==
    /\ created[1].given = <<"caller-id">>
    /\ fields.actionid = <<"caller-id">>
    /\ Fed = 2
    /\ Len(yielded["c1"]) >= 1

(***************************************************************************)
(* C12: a Command constructed without ids draws one id from the 'action'   *)
(* generator and one from the 'command' generator; since the last reset    *)
(* the n-th action id issued carries sequence n and the m-th command id    *)
(* sequence m, whatever the mix of Actions and Commands.                   *)
(***************************************************************************)
CommandIssuedBefore(j) ==
    {i \in 1..(j - 1) : created[i].auto_command /\ created[i].resets = created[j].resets}

IssuedSinceReset(flag) ==
    {i \in 1..Len(created) : created[i][flag] /\ created[i].resets = resets}

C12_IndependentSequences ==
    /\ \A j \in 1..Len(created) :
        /\ created[j].auto_action =>
            /\ created[j].actionid[1] = "action"
            /\ created[j].actionid[4] = Cardinality(IssuedBefore(j)) + 1
        /\ created[j].auto_command =>
            /\ created[j].commandid[1] = "command"
            /\ created[j].commandid[4] = Cardinality(CommandIssuedBefore(j)) + 1
        /\ created[j].cls = "Action" => created[j].commandid = NoId
    /\ generators["action"].seq = Cardinality(IssuedSinceReset("auto_action"))
    /\ generators["command"].seq = Cardinality(IssuedSinceReset("auto_command"))

\* After a reset, an Action and then a Command: action/../2 and command/../1.
C12_Witness ==
    /\ resets >= 1
    /\ Len(created) >= 2
    /\ LET a == created[Len(created) - 1]
           c == created[Len(created)]
       IN  /\ a.cls = "Action" /\ a.auto_action /\ a.resets = resets
           /\ c.cls = "Command" /\ c.auto_action /\ c.auto_command /\ c.resets = resets
           /\ a.actionid[4] = 1
           /\ c.actionid[4] = 2
           /\ c.commandid[4] = 1

(***************************************************************************)
(* C13 as stated: a message with a response status that is not recognized, *)
(* and no completing event or subevent, fed to a pending Action, fails     *)
(* completed and leaves the Action pending.                                *)
(***************************************************************************)
Unrecognized(m) == m.response # "" /\ ~CompletionSignal(m)

FeedsUnrecognized ==
    /\ Len(responses') = Fed + 1
    /\ ~done
    /\ Unrecognized(responses'[Fed + 1])

StaysPending ==
    /\ ~completed(responses')
    /\ fut_state' = "PENDING"

C13_UnrecognizedStaysPending == [][FeedsUnrecognized => StaysPending]_vars

(***************************************************************************)
(* C13 as amended: such a message, fed to an Action that is classified     *)
(* multi, fails completed and leaves the Action pending, and add_message   *)
(* returns None.                                                           *)
(***************************************************************************)
MultiOf(rs) ==
    \/ as_list = "True"
    \/ as_list = "None" /\ MultiSignal(rs[1])

C13_UnrecognizedStaysPendingIfMulti ==
    [][(FeedsUnrecognized /\ MultiOf(responses')) => (StaysPending /\ ret' = "None")]_vars

\* Response 'Follows' fed second to a multi Action, which is still pending.
C13_Witness ==
    /\ Fed = 2
    /\ ClassifiedMulti
    /\ Unrecognized(responses[2])
    /\ ~done
    /\ ret = "None"

(***************************************************************************)
(* C14: the cursor is always between 0 and the length of the buffer, and   *)
(* no step decreases it.                                                   *)
(***************************************************************************)
C14_CursorInRange ==
    /\ [](0 <= responses_index /\ responses_index <= Len(responses))
    /\ [][responses_index' >= responses_index]_vars

\* The cursor has moved and is behind the buffer; end-of-stream was signalled.
C14_Witness ==
    /\ responses_index = 2
    /\ Fed = 3
    /\ eos_count["c1"] = 1

(***************************************************************************)
(* C15: every add_message call, on a pending or on a resolved Action,      *)
(* appends one message at the end of the buffer and leaves what was        *)
(* buffered before as it was; no other step changes the buffer.            *)
(***************************************************************************)
AppendsOne ==
    /\ Len(responses') = Fed + 1
    /\ SubSeq(responses', 1, Fed) = responses
    /\ responses'[Fed + 1] \in Messages

C15_BufferAppendOnly ==
    [][IF AddMessage THEN AppendsOne ELSE responses' = responses]_vars

\* Two messages were buffered after the Action resolved with its first.
C15_Witness ==
    /\ Fed = 3
    /\ done
    /\ resolved_value = [kind |-> "message", items |-> <<responses[1]>>]
    /\ responses_index = 1

(***************************************************************************)
(* C16: under fair scheduling, a read that sleeps with the cursor at the   *)
(* end of the buffer returns once a message is appended or the Action is   *)
(* resolved, by yielding a message or signalling end-of-stream; and every  *)
(* message fed is eventually yielded to the consumer.                      *)
(***************************************************************************)
Sleeping == pc["c1"] = "sleeping"

C16_SuspendedReadReturns ==
    /\ (Sleeping /\ (responses_index < Fed \/ done)) ~> ~Sleeping
    /\ [][(Sleeping /\ ~Sleeping') =>
            \/ /\ Len(yielded'["c1"]) = Len(yielded["c1"]) + 1
               /\ eos_count' = eos_count
            \/ /\ eos_count'["c1"] = eos_count["c1"] + 1
               /\ yielded' = yielded
               /\ done]_vars
    /\ \A k \in 1..MaxLen : (Fed >= k) ~> (Len(yielded["c1"]) >= k)

\* The consumer has read all that was fed and sleeps on a pending Action.
C16_Witness ==
    /\ Sleeping
    /\ Fed = 2
    /\ yielded["c1"] = responses
    /\ ~done

(***************************************************************************)
(* C17 as stated: end-of-stream is signalled once; a consumer that asks    *)
(* again is not signalled again.                                           *)
(***************************************************************************)
C17_EndOfStreamOnce == eos_count["c1"] <= 1

(***************************************************************************)
(* C17 as amended: every read made while the Action is resolved and no     *)
(* buffered message remains signals end-of-stream, also a read that        *)
(* follows an earlier end-of-stream; it yields nothing and does not sleep. *)
(***************************************************************************)
ReadsAtEnd ==
    /\ AnextCall("c1") \/ AnextWake("c1")
    /\ done
    /\ responses_index = Fed

C17_EndOfStreamAtEveryRead ==
    [][ReadsAtEnd =>
        /\ eos_count'["c1"] = eos_count["c1"] + 1
        /\ yielded' = yielded
        /\ pc'["c1"] = "idle"]_vars

\* The consumer asked again and was signalled end-of-stream a second time.
C17_Witness ==
    /\ eos_count["c1"] = 2
    /\ yielded["c1"] = responses
    /\ Fed >= 1

(***************************************************************************)
(* C18: add_message returns True exactly when the call resolved the        *)
(* Action; False exactly when the Action was pending, completed holds and  *)
(* the Action is multi with one message buffered; None in every other      *)
(* case.                                                                   *)
(***************************************************************************)
CompletedOf(rs) == CompletionSignal(rs[Len(rs)]) \/ ~MultiOf(rs)

C18_Step ==
    AddMessage =>
        LET resolves == ~done /\ fut_state' = "FINISHED"
            waits == /\ ~done
                     /\ CompletedOf(responses')
                     /\ MultiOf(responses')
                     /\ Len(responses') = 1
        IN  /\ ret' = "True" <=> resolves
            /\ ret' = "False" <=> waits
            /\ ret' = "None" <=> (~resolves /\ ~waits)
            /\ waits => fut_state' = "PENDING"

C18_ReturnValue == [][C18_Step]_vars

\* A completing message fed to a resolved Action: add_message returned None.
C18_Witness ==
    /\ Fed = 2
    /\ done
    /\ resolved_value.kind = "message"
    /\ CompletionSignal(responses[2])
    /\ ret = "None"

(***************************************************************************)
(* C19: with two consumers on one Action, the messages up to the cursor    *)
(* are shared out between them: each was yielded to exactly one consumer,  *)
(* each consumer got its messages in arrival order, and the cursor is      *)
(* never beyond the buffer.                                                *)
(***************************************************************************)
RECURSIVE IsInterleaving(_, _, _)
IsInterleaving(a, b, s) ==
    IF s = << >>
    THEN a = << >> /\ b = << >>
    ELSE \/ a # << >> /\ Head(a) = Head(s) /\ IsInterleaving(Tail(a), b, Tail(s))
         \/ b # << >> /\ Head(b) = Head(s) /\ IsInterleaving(a, Tail(b), Tail(s))

C19_SharedCursor ==
    /\ responses_index <= Fed
    /\ Len(yielded["c1"]) + Len(yielded["c2"]) = responses_index
    /\ IsInterleaving(yielded["c1"], yielded["c2"], SubSeq(responses, 1, responses_index))

\* Both consumers were yielded messages, and one of them sleeps.
C19_Witness ==
    /\ Fed = 3
    /\ responses_index = 3
    /\ Len(yielded["c1"]) = 2
    /\ Len(yielded["c2"]) = 1
    /\ yielded["c1"] = <<responses[1], responses[3]>>
    /\ responses[1] # responses[2]
    /\ pc["c2"] = "sleeping"

(***************************************************************************)
(* C20: the result of a resolved Action has the shape of its               *)
(* classification.  A single message is the first buffered message and     *)
(* was set when one message was buffered; a list has at least two          *)
(* elements, begins with the first buffered message and was set by a call  *)
(* whose message carried a completion signal.                              *)
(***************************************************************************)
C20_Shape ==
    done =>
        /\ Awaited.kind = "message" <=> ~ClassifiedMulti
        /\ Awaited.kind = "list" <=> ClassifiedMulti
        /\ Awaited.kind = "message" => Awaited.items = <<responses[1]>>
        /\ Awaited.kind = "list" =>
            /\ Len(Awaited.items) >= 2
            /\ Awaited.items[1] = responses[1]

C20_Set ==
    (~done /\ fut_state' = "FINISHED") =>
        LET kind == Result(fut_result', responses').kind
        IN  /\ kind = "message" => Len(responses') = 1
            /\ kind = "list" =>
                /\ Len(responses') >= 2
                /\ CompletionSignal(responses'[Len(responses')])

C20_ResultShape == []C20_Shape /\ [][C20_Set]_vars

\* A list result, set with two messages buffered, and a third fed later.
C20_Witness ==
    /\ done
    /\ Awaited.kind = "list"
    /\ Len(resolved_value.items) = 2
    /\ Fed = 3
    /\ ~CompletionSignal(responses[3])

=============================================================================
